---- MODULE Spec2Model ----
(***************************************************************************)
(* Highlight extraction, validation, text recovery and caption enrichment  *)
(* (Components/LanguageTasks.py) and the video pipeline that drives them   *)
(* (main.py).                                                              *)
(*                                                                         *)
(* Python strings are sequences of one-character strings.  Times are whole *)
(* seconds; a Python float is a record [nan, v] so that NaN, which JSON    *)
(* replies may carry, compares the way IEEE comparison does.               *)
(***************************************************************************)
EXTENDS Integers, Sequences, FiniteSets, TLC

\* ------------------------------------------------------------------------
\* Python values and float()
\* ------------------------------------------------------------------------

\* str.strip() on a sequence of characters (whitespace is " " and "\n")
IsSpace(c) == c \in {" ", "\n"}

RECURSIVE LStrip(_)
LStrip(s) == IF s # <<>> /\ IsSpace(Head(s)) THEN LStrip(Tail(s)) ELSE s

RECURSIVE RStrip(_)
RStrip(s) ==
    IF s # <<>> /\ IsSpace(s[Len(s)]) THEN RStrip(SubSeq(s, 1, Len(s) - 1)) ELSE s

Strip(s) == RStrip(LStrip(s))

\* a finite float and float('nan')
Fl(n) == [nan |-> FALSE, v |-> n]
NaN == [nan |-> TRUE, v |-> 0]

\* IEEE comparisons and subtraction: every comparison with NaN is false
FLe(a, b) == ~a.nan /\ ~b.nan /\ a.v <= b.v
FGe(a, b) == ~a.nan /\ ~b.nan /\ a.v >= b.v
FGt(a, b) == ~a.nan /\ ~b.nan /\ a.v > b.v
FLt(a, b) == ~a.nan /\ ~b.nan /\ a.v < b.v
FSub(a, b) == IF a.nan \/ b.nan THEN NaN ELSE Fl(a.v - b.v)

\* The values a decoded JSON reply can hold under a key:
\*   num   an int or float in float range      str   a string
\*   huge  an int beyond float range           null  None
\*   nan   the NaN literal json.loads accepts  list  a nested list
\*   absent: the key is not in the mapping
VNum(n) == [t |-> "num", n |-> n, s |-> <<>>]
VStr(s) == [t |-> "str", n |-> 0, s |-> s]
VHuge == [t |-> "huge", n |-> 0, s |-> <<>>]
VNaN == [t |-> "nan", n |-> 0, s |-> <<>>]
VNull == [t |-> "null", n |-> 0, s |-> <<>>]
VList == [t |-> "list", n |-> 0, s |-> <<>>]
Absent == [t |-> "absent", n |-> 0, s |-> <<>>]

DigitChars == <<"0", "1", "2", "3", "4", "5", "6", "7", "8", "9">>
IsDigit(c) == \E i \in 1..10 : DigitChars[i] = c
DigitVal(c) == (CHOOSE i \in 1..10 : DigitChars[i] = c) - 1

RECURSIVE DigitsValue(_, _)
DigitsValue(s, acc) ==
    IF s = <<>> THEN acc ELSE DigitsValue(Tail(s), 10 * acc + DigitVal(Head(s)))

\* the outcome of a call: a value, or the name of the exception it raises
Ret(v) == [exc |-> "none", val |-> v]
Raise(e) == [exc |-> e, val |-> FALSE]

\* float(<str>): surrounding whitespace is ignored, then an optional sign and
\* at least one digit; anything else is a ValueError
ParseFloat(s) ==
    LET b == Strip(s)
        neg == b # <<>> /\ Head(b) = "-"
        d == IF neg THEN Tail(b) ELSE b
    IN  IF d # <<>> /\ \A i \in 1..Len(d) : IsDigit(d[i])
        THEN Ret(Fl(IF neg THEN 0 - DigitsValue(d, 0) ELSE DigitsValue(d, 0)))
        ELSE Raise("ValueError")

\* float(x)
PyFloat(x) ==
    CASE x.t = "num" -> Ret(Fl(x.n))
      [] x.t = "nan" -> Ret(NaN)
      [] x.t = "huge" -> Raise("OverflowError")
      [] x.t = "str" -> ParseFloat(x.s)
      [] OTHER -> Raise("TypeError")

\* ------------------------------------------------------------------------
\* Segment Validator
\* ------------------------------------------------------------------------

\* A raw segment: m = "dict" is a mapping with the keys that are not Absent;
\* m = "scalar" is a number or None (`key in h` raises TypeError);
\* m = "seq" is a string or list that holds neither key (`key in h` is False)
Seg(a, b) == [m |-> "dict", start |-> a, end |-> b]
ScalarSeg == [m |-> "scalar", start |-> Absent, end |-> Absent]
SeqSeg == [m |-> "seq", start |-> Absent, end |-> Absent]

min_duration == 29
max_duration == 61

DurationInRange(duration) ==
    FLe(Fl(min_duration), duration) /\ FLe(duration, Fl(max_duration))

\* except (ValueError, TypeError): return False
VH_Except(e) == IF e \in {"ValueError", "TypeError"} THEN Ret(FALSE) ELSE Raise(e)

\* lines 50-65, start and end being the outcomes of the two float() calls
VH_Check(start, end) ==
    IF start.exc # "none" THEN VH_Except(start.exc)
    ELSE IF end.exc # "none" THEN VH_Except(end.exc)
    ELSE IF ~DurationInRange(FSub(end.val, start.val)) THEN Ret(FALSE)
    ELSE IF FGe(start.val, end.val) THEN Ret(FALSE)
    ELSE Ret(TRUE)

validate_highlight(highlight) ==
    IF highlight.m = "scalar" THEN VH_Except("TypeError")
    ELSE IF highlight.start = Absent \/ highlight.end = Absent THEN Ret(FALSE)
    ELSE VH_Check(PyFloat(highlight.start), PyFloat(highlight.end))

\* float(x["start"]) and float(x["end"]) of a segment that passed validation
StartOf(h) == PyFloat(h.start).val
EndOf(h) == PyFloat(h.end).val

\* sorted(hs, key=lambda x: float(x["start"])): stable, ascending
RECURSIVE InsertByStart(_, _)
InsertByStart(h, sorted) ==
    IF sorted = <<>> THEN <<h>>
    ELSE IF FLt(StartOf(h), StartOf(Head(sorted))) THEN <<h>> \o sorted
    ELSE <<Head(sorted)>> \o InsertByStart(h, Tail(sorted))

RECURSIVE SortByStart(_)
SortByStart(hs) ==
    IF hs = <<>> THEN <<>>
    ELSE InsertByStart(hs[Len(hs)], SortByStart(SubSeq(hs, 1, Len(hs) - 1)))

\* the overlap loop comparing the ends of the two neighbours
OverlapsFoundByEnd(sorted) ==
    \E i \in 1..(Len(sorted) - 1) : FGt(EndOf(sorted[i]), EndOf(sorted[i + 1]))

\* the adjacent-pair loop with >= in place of >
OverlapsFoundOrTouching(sorted) ==
    \E i \in 1..(Len(sorted) - 1) : FGe(EndOf(sorted[i]), StartOf(sorted[i + 1]))

\* the adjacent-pair loop: some i has float(end_i) > float(start_{i+1})
OverlapsFound(sorted) ==
    \E i \in 1..(Len(sorted) - 1) : FGt(EndOf(sorted[i]), StartOf(sorted[i + 1]))

\* all(validate_highlight(h) for h in highlights): stops at the first False,
\* and an exception of validate_highlight leaves through it
VH_All(r, rest) ==
    IF r.exc # "none" THEN r
    ELSE IF ~r.val THEN Ret(FALSE)
    ELSE rest

RECURSIVE AllValid(_)
AllValid(hs) ==
    IF hs = <<>> THEN Ret(TRUE)
    ELSE VH_All(validate_highlight(Head(hs)), AllValid(Tail(hs)))

\* lines 77-92, ok being the outcome of the all(...)
VHS_Check(ok, highlights) ==
    IF ok.exc # "none" THEN ok
    ELSE IF ~ok.val THEN Ret(FALSE)
    ELSE IF OverlapsFound(SortByStart(highlights)) THEN Ret(FALSE)
    ELSE Ret(TRUE)

validate_highlights(highlights) ==
    IF highlights = <<>> THEN Ret(FALSE)
    ELSE VHS_Check(AllValid(highlights), highlights)

\* ------------------------------------------------------------------------
\* Replies of the generative content service
\* ------------------------------------------------------------------------

\* What client.models.generate_content does, seen from the caller:
\*   k = "error"  the call raises (transport failure, timeout)
\*   k = "empty"  response is None or response.text is None or ""
\*   k = "text"   response.text is non-empty: a body, bare or inside a fenced
\*                block (fence "json" is ```json ... ```, fence "bare" is
\*                ``` ... ``` with no language tag), with or without prose
\*                around it
\* A body is a JSON document (j = "list", "obj", "num"), whitespace ("blank")
\* or text that is no JSON ("garbage").  An object has at most the key
\* caption_with_hashtags, cap being its value (Absent when it has none).
JList(items) == [j |-> "list", items |-> items, cap |-> Absent]
JObj(cap) == [j |-> "obj", items |-> <<>>, cap |-> cap]
JNum == [j |-> "num", items |-> <<>>, cap |-> Absent]
Blank == [j |-> "blank", items |-> <<>>, cap |-> Absent]
Garbage == [j |-> "garbage", items |-> <<>>, cap |-> Absent]

Text(fence, prose, body) == [k |-> "text", fence |-> fence, prose |-> prose, body |-> body]
Plain(body) == Text("none", FALSE, body)
ServiceError == [k |-> "error", fence |-> "none", prose |-> FALSE, body |-> Blank]
EmptyReply == [k |-> "empty", fence |-> "none", prose |-> FALSE, body |-> Blank]

\* not response or not response.text
IsEmptyResponse(response) == response.k = "empty"

\* re.search(r"```json\s*([\s\S]*?)\s*```", response_text): the inside of the
\* first ```json block when there is one, else the whole text, stripped.
\* junk says that characters of the string lie outside its JSON body.
UnwrapFence(response) ==
    IF response.fence = "json"
    THEN [junk |-> FALSE, body |-> response.body]
    ELSE [junk |-> response.prose \/ response.fence = "bare", body |-> response.body]

\* json.loads(json_string)
json_loads(json_string) ==
    IF json_string.junk \/ json_string.body.j \in {"blank", "garbage"}
    THEN Raise("JSONDecodeError")
    ELSE Ret(json_string.body)

\* ------------------------------------------------------------------------
\* Highlight Extractor: what one attempt does with the reply it got
\* ------------------------------------------------------------------------

\* [h for h in raw_highlights if validate_highlight(h)]
VH_Keep(h, r, rest) ==
    IF r.exc # "none" THEN Raise(r.exc)
    ELSE IF rest.exc # "none" THEN rest
    ELSE IF r.val THEN Ret(<<h>> \o rest.val)
    ELSE rest

RECURSIVE FilterValid(_)
FilterValid(raw) ==
    IF raw = <<>> THEN Ret(<<>>)
    ELSE VH_Keep(Head(raw), validate_highlight(Head(raw)), FilterValid(Tail(raw)))

\* the loop with the first handler only
EH_CatchesJsonOnly(e) == e = "JSONDecodeError"

\* except json.JSONDecodeError / except Exception: both `continue`
EH_Catches(e) ==
    e \in {"JSONDecodeError", "ValueError", "TypeError", "OverflowError",
           "AttributeError", "ServiceError"}

Continue(valid) == [go |-> "continue", exc |-> "none", valid |-> valid, result |-> <<>>]

\* the exception e raised inside the try block of an attempt
EH_Except(e, valid) ==
    IF EH_Catches(e) THEN Continue(valid)
    ELSE [go |-> "raise", exc |-> e, valid |-> valid, result |-> <<>>]

\* the return of valid_highlights, the list before sorting
EH_CheckedUnsorted(valid_highlights, sorted_highlights) ==
    IF OverlapsFound(sorted_highlights)
    THEN [go |-> "continue", exc |-> "none", valid |-> valid_highlights, result |-> <<>>]
    ELSE [go |-> "return", exc |-> "none",
          valid |-> valid_highlights, result |-> valid_highlights]

\* the return without the overlap test of lines 189-198
EH_CheckedNoOverlapTest(valid_highlights, sorted_highlights) ==
    [go |-> "return", exc |-> "none",
     valid |-> valid_highlights, result |-> sorted_highlights]

\* lines 196-202: the overlap check on the sorted list and the return
EH_Checked(valid_highlights, sorted_highlights) ==
    IF OverlapsFound(sorted_highlights)
    THEN Continue(valid_highlights)
    ELSE [go |-> "return", exc |-> "none",
          valid |-> valid_highlights, result |-> sorted_highlights]

\* lines 180-188, f being the outcome of the list comprehension
EH_Filtered(f, valid) ==
    IF f.exc # "none" THEN EH_Except(f.exc, valid)
    ELSE IF f.val = <<>> THEN Continue(f.val)
    ELSE EH_Checked(f.val, SortByStart(f.val))

\* lines 172-180, raw_highlights being the outcome of json.loads
EH_Parsed(raw_highlights, valid) ==
    IF raw_highlights.exc # "none" THEN EH_Except(raw_highlights.exc, valid)
    ELSE IF raw_highlights.val.j # "list" THEN Continue(valid)
    ELSE EH_Filtered(FilterValid(raw_highlights.val.items), valid)

\* One pass of the loop body after the request, with valid the value the
\* local valid_highlights holds from the pass before: go is "return" (result
\* is returned), "continue" or "raise"; valid is valid_highlights afterwards.
EH_Attempt(response, valid) ==
    IF response.k = "error" THEN EH_Except("ServiceError", valid)
    ELSE IF IsEmptyResponse(response) THEN Continue(valid)
    ELSE EH_Parsed(json_loads(UnwrapFence(response)), valid)

\* ------------------------------------------------------------------------
\* Segment Text Recoverer
\* ------------------------------------------------------------------------

\* A transcript line as line_pattern sees it:
\*   k = "stamped"  "[<ts>] <Speaker N: >?<text>< [<ts>]>?<space>?"  (it matches)
\*   k = "junk"     text that does not match
\*   k = "blank"    whitespace only (it does not match)
\* sp: whitespace follows the closing timestamp, before the line break
Stamped(ts, spk, text, trail) ==
    [k |-> "stamped", ts |-> ts, spk |-> spk, text |-> text, trail |-> trail,
     sp |-> FALSE]
StampedSpaced(ts, spk, text) ==
    [k |-> "stamped", ts |-> ts, spk |-> spk, text |-> text, trail |-> TRUE,
     sp |-> TRUE]
JunkLine ==
    [k |-> "junk", ts |-> 0, spk |-> FALSE, text |-> <<"x">>, trail |-> FALSE,
     sp |-> FALSE]
BlankLine ==
    [k |-> "blank", ts |-> 0, spk |-> FALSE, text |-> <<>>, trail |-> FALSE,
     sp |-> FALSE]

\* A transcription argument: a str (its lines), None, or another object
TStr(lines) == [t |-> "str", lines |-> lines]
TNone == [t |-> "none", lines |-> <<>>]
TObj == [t |-> "obj", lines |-> <<>>]

\* the guard without the strip(): not transcription
IsBlankTranscriptionNoStrip(transcription) ==
    \/ transcription.t = "none"
    \/ transcription.t = "str" /\ transcription.lines = <<>>

\* not transcription or not transcription.strip(), for a str or None
IsBlankTranscription(transcription) ==
    \/ transcription.t = "none"
    \/ /\ transcription.t = "str"
       /\ \A i \in 1..Len(transcription.lines) : transcription.lines[i].k = "blank"

\* "\n".join(parts)
RECURSIVE JoinLines(_)
JoinLines(parts) ==
    IF parts = <<>> THEN <<>>
    ELSE IF Len(parts) = 1 THEN parts[1]
    ELSE parts[1] \o <<"\n">> \o JoinLines(Tail(parts))

\* transcription.strip().splitlines(): the whitespace at both ends of the
\* whole text goes, blank lines there included, and with it the whitespace
\* that ends the last line; the lines in between stay as they are
RECURSIVE DropLeadingBlank(_)
DropLeadingBlank(lines) ==
    IF lines = <<>> THEN <<>>
    ELSE IF Head(lines).k = "blank" THEN DropLeadingBlank(Tail(lines))
    ELSE lines

RECURSIVE DropTrailingBlank(_)
DropTrailingBlank(lines) ==
    IF lines = <<>> THEN <<>>
    ELSE IF lines[Len(lines)].k = "blank"
         THEN DropTrailingBlank(SubSeq(lines, 1, Len(lines) - 1))
    ELSE lines

StripSplitlines(all) ==
    LET lines == DropTrailingBlank(DropLeadingBlank(all))
    IN  IF lines = <<>> THEN <<>>
        ELSE [lines EXCEPT ![Len(lines)].sp = FALSE]

\* the closing timestamp as it stands in a text
TrailingStamp == "[t]"

\* text_content of a matching line: group 2 stripped, the speaker prefix
\* removed. The optional closing group has to end the line, so with
\* whitespace behind it the closing timestamp stays in group 2.
text_content(line) ==
    LET text == Strip(line.text)
    IN  IF line.trail /\ line.sp
        THEN IF text = <<>> THEN <<TrailingStamp>>
             ELSE text \o <<" ", TrailingStamp>>
        ELSE text

\* the window closed at its end: timestamp <= end_time
RECURSIVE SegmentLinesInclusiveEnd(_, _, _)
SegmentLinesInclusiveEnd(lines, start_time, end_time) ==
    IF lines = <<>> THEN <<>>
    ELSE LET line == Head(lines)
             rest == SegmentLinesInclusiveEnd(Tail(lines), start_time, end_time)
         IN  IF /\ line.k = "stamped"
                /\ FLe(Fl(line.ts), end_time) /\ FGe(Fl(line.ts), start_time)
                /\ text_content(line) # <<>>
             THEN <<text_content(line)>> \o rest
             ELSE rest

\* the loop over the lines: the texts appended to segment_text
RECURSIVE SegmentLines(_, _, _)
SegmentLines(lines, start_time, end_time) ==
    IF lines = <<>> THEN <<>>
    ELSE LET line == Head(lines)
             rest == SegmentLines(Tail(lines), start_time, end_time)
         IN  IF /\ line.k = "stamped"
                /\ FLt(Fl(line.ts), end_time) /\ FGe(Fl(line.ts), start_time)
                /\ text_content(line) # <<>>
             THEN <<text_content(line)>> \o rest
             ELSE rest

extract_text_for_segment(transcription, start_time, end_time) ==
    JoinLines(SegmentLines(StripSplitlines(transcription.lines), start_time, end_time))

\* ------------------------------------------------------------------------
\* Caption Enricher: the guard, and what one attempt does with its reply
\* ------------------------------------------------------------------------

\* the guard without the strip()
GD_GuardNoStrip(segment_text) == segment_text = <<>>

\* if not segment_text or not segment_text.strip(): return None
GD_Guard(segment_text) == segment_text = <<>> \/ Strip(segment_text) = <<>>

\* the enricher's loop with the first handler only
GD_CatchesJsonOnly(e) == e = "JSONDecodeError"

\* except json.JSONDecodeError / except Exception: both `continue`
GD_Catches(e) ==
    e \in {"JSONDecodeError", "ValueError", "TypeError", "OverflowError",
           "AttributeError", "ServiceError"}

GD_Except(e) ==
    IF GD_Catches(e) THEN [go |-> "continue", exc |-> "none", result |-> <<>>]
    ELSE [go |-> "raise", exc |-> e, result |-> <<>>]

\* the return without the strip()
GD_ParsedUntrimmed(data) ==
    IF data.exc # "none" THEN GD_Except(data.exc)
    ELSE IF data.val.j # "obj" \/ data.val.cap = Absent \/ data.val.cap.t # "str"
    THEN [go |-> "continue", exc |-> "none", result |-> <<>>]
    ELSE [go |-> "return", exc |-> "none", result |-> data.val.cap.s]

\* lines 314-324, data being the outcome of json.loads
GD_Parsed(data) ==
    IF data.exc # "none" THEN GD_Except(data.exc)
    ELSE IF data.val.j # "obj" \/ data.val.cap = Absent \/ data.val.cap.t # "str"
    THEN [go |-> "continue", exc |-> "none", result |-> <<>>]
    ELSE [go |-> "return", exc |-> "none", result |-> Strip(data.val.cap.s)]

GD_Attempt(response) ==
    IF response.k = "error" THEN GD_Except("ServiceError")
    ELSE IF IsEmptyResponse(response) THEN [go |-> "continue", exc |-> "none", result |-> <<>>]
    ELSE GD_Parsed(json_loads(UnwrapFence(response)))

\* ------------------------------------------------------------------------
\* Inputs: the bounded sets the calls and the service replies are drawn from
\* ------------------------------------------------------------------------

MaxSetLen == 3
MaxReplyLen == 2
MaxAttemptsArg == 3
MaxLines == 2

SeqsUpTo(S, n) == UNION {[1..k -> S] : k \in 0..n}

\* values under "start" and "end" given to validate_highlight
FieldValues ==
    {VNum(0 - 30), VNum(0), VNum(1), VNum(29), VNum(61), VNum(62),
     VStr(<<"0">>), VStr(<<" ", "2", "9">>), VStr(<<"6", "1">>), VStr(<<"-", "1">>),
     VStr(<<"x">>), VStr(<<>>), VHuge, VNaN, VNull, VList, Absent}

RawSegments == {Seg(a, b) : a \in FieldValues, b \in FieldValues} \cup {ScalarSeg, SeqSeg}

\* segments of a list: three that touch ([-30,0], [0,29], ["29","61"]), one
\* that overlaps ([1,62]), one too short, one whose start is beyond float
\* range, one that is no mapping
ListSegments ==
    {Seg(VNum(0 - 30), VNum(0)), Seg(VNum(0), VNum(29)),
     Seg(VStr(<<"2", "9">>), VStr(<<"6", "1">>)), Seg(VNum(1), VNum(62)),
     Seg(VNum(0), VNum(1)), Seg(VHuge, VStr(<<"x">>)), ScalarSeg}

SegmentLists == SeqsUpTo(ListSegments, MaxSetLen)

\* names for the segments the replies are built from
SegA == Seg(VNum(0), VNum(29))
SegB == Seg(VStr(<<"2", "9">>), VStr(<<"6", "1">>))
SegN == Seg(VNum(0 - 30), VNum(0))
SegOverlap == Seg(VNum(1), VNum(62))
SegShort == Seg(VNum(0), VNum(1))
SegHuge == Seg(VHuge, VStr(<<"x">>))

ReplySegments == {SegA, SegOverlap}

\* replies to extract_highlights called on its own: every list of at most
\* MaxReplyLen segments, and one reply of every other shape
ExtractorReplies ==
    {Plain(JList(l)) : l \in SeqsUpTo(ReplySegments, MaxReplyLen)}
    \cup {ServiceError, EmptyReply, Plain(Blank), Plain(Garbage), Plain(JNum),
          Plain(JObj(VStr(<<"a">>))),
          Plain(JList(<<SegShort>>)), Plain(JList(<<SegShort, SegA>>)),
          Plain(JList(<<SegB>>)), Plain(JList(<<SegB, SegA>>)),
          Plain(JList(<<SegA, SegB>>)),
          Plain(JList(<<SegN, SegB, SegA>>)), Plain(JList(<<ScalarSeg, SegA>>)),
          Plain(JList(<<SegA, SegHuge>>)),
          Text("json", FALSE, JList(<<SegA>>)), Text("json", TRUE, JList(<<SegA>>)),
          Text("bare", FALSE, JList(<<SegA>>)), Text("none", TRUE, JList(<<SegA>>))}

\* replies to the extract_highlights that GetHighlights calls
PipelineExtractorReplies ==
    {ServiceError, EmptyReply, Plain(Garbage), Plain(JObj(VStr(<<"a">>))),
     Plain(JList(<<>>)), Plain(JList(<<SegShort>>)), Plain(JList(<<SegA, SegOverlap>>)),
     Plain(JList(<<SegHuge, SegA>>)), Plain(JList(<<SegA>>)),
     Plain(JList(<<SegB, SegShort, SegA>>)), Plain(JList(<<SegN, SegA, SegB>>)),
     Text("json", TRUE, JList(<<SegA, SegB>>)), Text("bare", FALSE, JList(<<SegA>>))}

RepliesToExtractor(e) ==
    IF e = "extract_highlights" THEN ExtractorReplies ELSE PipelineExtractorReplies

EnricherReplies ==
    {ServiceError, EmptyReply, Plain(Garbage), Plain(JList(<<>>)), Plain(JObj(Absent)),
     Plain(JObj(VNum(1))), Plain(JObj(VStr(<<" ">>))), Plain(JObj(VStr(<<" ", "a", " ">>))),
     Text("json", TRUE, JObj(VStr(<<"b">>))), Text("bare", FALSE, JObj(VStr(<<"a">>)))}

\* transcript lines and transcripts
Lines ==
    {Stamped(5, TRUE, <<"a">>, TRUE), Stamped(29, FALSE, <<" ", "b">>, FALSE),
     Stamped(0, FALSE, <<" ">>, TRUE), Stamped(61, FALSE, <<"c">>, FALSE),
     StampedSpaced(5, FALSE, <<"d">>), JunkLine, BlankLine}

Transcripts == {TStr(l) : l \in SeqsUpTo(Lines, MaxLines)}

Windows ==
    {<<Fl(0), Fl(29)>>, <<Fl(29), Fl(61)>>, <<Fl(0 - 30), Fl(0)>>, <<Fl(5), Fl(5)>>,
     <<Fl(0), Fl(61)>>}

GHTranscripts ==
    {TStr(<<Stamped(5, TRUE, <<"a">>, TRUE), Stamped(29, FALSE, <<" ", "b">>, FALSE)>>),
     TStr(<<Stamped(29, FALSE, <<" ", "b">>, FALSE), Stamped(5, TRUE, <<"a">>, TRUE)>>),
     TStr(<<JunkLine, Stamped(5, TRUE, <<"a">>, TRUE)>>),
     TStr(<<Stamped(0, FALSE, <<" ">>, TRUE)>>),
     TStr(<<BlankLine>>), TStr(<<>>), TNone, TObj}

\* what transcribeAudio returns: [] on failure, else (text, start, end) triples
Triple(text, start, end) == [text |-> text, start |-> start, end |-> end]
TranscriptionResults ==
    {<<>>, <<Triple(<<" ", "a">>, 0, 29), Triple(<<"b", " ">>, 29, 61)>>}

\* what db.get_cached_processing returns: None, or the row of the video (its
\* local path, its audio file: none recorded, recorded and on disk, recorded
\* and gone) with the transcription stored for it
Cache(video_path, audio, transcription) ==
    [hit |-> TRUE, video_path |-> video_path, audio |-> audio,
     transcription |-> transcription]
CacheResults ==
    {[hit |-> FALSE, video_path |-> VNull, audio |-> "none", transcription |-> <<>>],
     Cache(VStr(<<"v">>), "ondisk", <<Triple(<<"a">>, 5, 20)>>),
     Cache(VStr(<<"v">>), "gone", <<>>),
     Cache(VNull, "none", <<>>)}

SegmentTexts == {<<>>, <<" ">>, <<" ", "\n">>, <<"a">>, <<" ", "a">>}

\* ------------------------------------------------------------------------
\* State
\* ------------------------------------------------------------------------

\* entry     the function the run calls, args its arguments
\* pc        where the run is
\* ret       the outcome of the entry function once pc = "done"
\* eh        the frame of extract_highlights
\* gd        the frame of generate_description_and_hashtags
\* gh        the frame of GetHighlights
\* pv        the frame of process_video
\* requests  the generate_content calls made so far, by caller
\* outcomes  what became of each segment the loop of GetHighlights has dealt
\*           with: the text recovered for it, whether the enricher was
\*           called, and what it returned (a record of the run)
\* peer      when two invocations of GetHighlights run concurrently: the
\*           locals of the one that is not running now (args to outcomes
\*           above are those of the one that is); on is FALSE otherwise
VARIABLES entry, args, pc, ret, eh, gd, gh, pv, requests, outcomes, peer

vars == <<entry, args, pc, ret, eh, gd, gh, pv, requests, outcomes, peer>>

EH_default_max_attempts == 3
GD_default_max_attempts == 3

NoRet == [exc |-> "pending", val |-> FALSE]
NoResponse == [k |-> "none", fence |-> "none", prose |-> FALSE, body |-> Blank]

EHFrame(max_attempts) ==
    [max_attempts |-> max_attempts, attempt |-> 0,
     valid_highlights |-> <<>>, response |-> NoResponse]
\* the frame of a loop written for range(max_attempts + 1)
GDFrameOneMoreAttempt(segment_text, max_attempts) ==
    [segment_text |-> segment_text, max_attempts |-> max_attempts + 1,
     attempt |-> 0, response |-> NoResponse]
GDFrame(segment_text, max_attempts) ==
    [segment_text |-> segment_text, max_attempts |-> max_attempts,
     attempt |-> 0, response |-> NoResponse]
GHFrame(transcription) ==
    [transcription |-> transcription, highlight_segments |-> <<>>, i |-> 1,
     start_time |-> Fl(0), end_time |-> Fl(0), segment_text |-> <<>>,
     enriched_highlights |-> <<>>]
NoCache == [hit |-> FALSE, video_path |-> VNull, audio |-> "none", transcription |-> <<>>]
PVFrame ==
    [calls |-> <<>>, cached_data |-> NoCache, video_path |-> VNull, video_id |-> 0,
     transcriptions |-> <<>>, highlights |-> <<>>]

IdleEH == EHFrame(0)
IdleGD == GDFrame(<<>>, 0)
IdleGH == GHFrame(TNone)

\* the locals of an invocation of GetHighlights and of the calls it makes,
\* with its place in the code and the count of the requests it has made
Invocation(a, at, r, e, d, h, n, o) ==
    [on |-> TRUE, args |-> a, pc |-> at, ret |-> r, eh |-> e, gd |-> d, gh |-> h,
     requests |-> n, outcomes |-> o]
NoPeer ==
    [on |-> FALSE, args |-> [transcription |-> TNone], pc |-> "done", ret |-> NoRet,
     eh |-> IdleEH, gd |-> IdleGD, gh |-> IdleGH,
     requests |-> [extractor |-> 0, enricher |-> 0], outcomes |-> <<>>]

Entries ==
    {"validate_highlight", "validate_highlights", "extract_text_for_segment",
     "extract_highlights", "generate_description_and_hashtags", "GetHighlights",
     "process_video"}

ArgsOf(e) ==
    CASE e = "validate_highlight" -> {[highlight |-> h] : h \in RawSegments}
      [] e = "validate_highlights" -> {[highlights |-> l] : l \in SegmentLists}
      [] e = "extract_text_for_segment" ->
            {[transcription |-> t, start_time |-> w[1], end_time |-> w[2]] :
                t \in Transcripts, w \in Windows}
      [] e = "extract_highlights" ->
            {[transcription |-> t, max_attempts |-> m] :
                t \in {TStr(<<JunkLine>>)}, m \in 0..MaxAttemptsArg}
      [] e = "generate_description_and_hashtags" ->
            {[segment_text |-> t, max_attempts |-> m] :
                t \in SegmentTexts, m \in 0..MaxAttemptsArg}
      [] e = "GetHighlights" -> {[transcription |-> t] : t \in GHTranscripts}
      [] e = "process_video" ->
            {[url |-> u, local_path |-> l] :
                u \in {VNull, VStr(<<"u">>)}, l \in {VNull, VStr(<<"l">>)}}

Init ==
    /\ entry \in Entries
    /\ args \in ArgsOf(entry)
    /\ pc = "start"
    /\ ret = NoRet
    /\ eh = IdleEH
    /\ gd = IdleGD
    /\ gh = IdleGH
    /\ pv = PVFrame
    /\ requests = [extractor |-> 0, enricher |-> 0]
    /\ outcomes = <<>>
    /\ peer = NoPeer

\* ------------------------------------------------------------------------
\* The pure functions, called directly
\* ------------------------------------------------------------------------

Call_validate_highlight ==
    /\ pc = "start" /\ entry = "validate_highlight"
    /\ ret' = validate_highlight(args.highlight)
    /\ pc' = "done"
    /\ UNCHANGED <<entry, args, eh, gd, gh, pv, requests, outcomes>>
    /\ UNCHANGED peer

Call_validate_highlights ==
    /\ pc = "start" /\ entry = "validate_highlights"
    /\ ret' = validate_highlights(args.highlights)
    /\ pc' = "done"
    /\ UNCHANGED <<entry, args, eh, gd, gh, pv, requests, outcomes>>
    /\ UNCHANGED peer

Call_extract_text_for_segment ==
    /\ pc = "start" /\ entry = "extract_text_for_segment"
    /\ ret' = Ret(extract_text_for_segment(args.transcription, args.start_time, args.end_time))
    /\ pc' = "done"
    /\ UNCHANGED <<entry, args, eh, gd, gh, pv, requests, outcomes>>
    /\ UNCHANGED peer

\* ------------------------------------------------------------------------
\* GetHighlights: returning to whoever called
\* ------------------------------------------------------------------------

\* the outer handler narrowed to the exception the inner one names
GH_CatchesValueErrorOnly(e) == e = "ValueError"

\* except Exception as e: ... return []
GH_Catches(e) ==
    e \in {"JSONDecodeError", "ValueError", "TypeError", "OverflowError",
           "AttributeError", "ServiceError"}

\* GetHighlights returns v: to the caller of the run, or to process_video
GH_Return(v) ==
    IF entry = "GetHighlights"
    THEN /\ pc' = "done"
         /\ ret' = Ret(v)
         /\ pv' = pv
    ELSE /\ pc' = "pv_highlights"
         /\ pv' = [pv EXCEPT !.highlights = v]
         /\ ret' = ret

\* the handler of line 145 narrowed to the failures of the video steps
PV_CatchesCollaboratorOnly(e) == e = "CollaboratorError"

\* process_video, line 145: except Exception as e: ... return None
PV_Catches(e) ==
    e \in {"JSONDecodeError", "ValueError", "TypeError", "OverflowError",
           "AttributeError", "ServiceError", "CollaboratorError"}

\* the exception e reaches the try block of GetHighlights
GH_Except(e) ==
    IF GH_Catches(e) THEN GH_Return(<<>>)
    ELSE /\ pc' = "done"
         /\ pv' = pv
         /\ ret' = IF entry = "process_video" /\ PV_Catches(e) THEN Ret(VNull) ELSE Raise(e)

\* the start of GetHighlights: the guard on the transcription, then the call
\* of extract_highlights(transcription.strip())
GH_Begin(transcription) ==
    IF transcription.t = "obj"
    THEN /\ GH_Except("AttributeError")
         /\ gh' = GHFrame(transcription)
         /\ UNCHANGED <<eh, gd, requests>>
    ELSE IF IsBlankTranscription(transcription)
    THEN /\ GH_Return(<<>>)
         /\ gh' = GHFrame(transcription)
         /\ UNCHANGED <<eh, gd, requests>>
    ELSE /\ gh' = GHFrame(transcription)
         /\ eh' = EHFrame(EH_default_max_attempts)
         /\ pc' = "eh_loop"
         /\ UNCHANGED <<ret, pv, gd, requests>>

GH_Enter ==
    /\ pc = "start" /\ entry = "GetHighlights"
    /\ GH_Begin(args.transcription)
    /\ UNCHANGED <<entry, args, outcomes>>
    /\ UNCHANGED peer

\* ------------------------------------------------------------------------
\* extract_highlights
\* ------------------------------------------------------------------------

EH_Enter ==
    /\ pc = "start" /\ entry = "extract_highlights"
    /\ eh' = EHFrame(args.max_attempts)
    /\ pc' = "eh_loop"
    /\ UNCHANGED <<entry, args, ret, gd, gh, pv, requests, outcomes>>
    /\ UNCHANGED peer

\* for attempt in range(max_attempts): the next value of the loop variable
NextAttempt(attempt) == attempt + 1

\* extract_highlights returns v, its frame being f
EH_Return(v, f) ==
    IF entry = "extract_highlights"
    THEN /\ pc' = "done" /\ ret' = Ret(v) /\ eh' = f
         /\ UNCHANGED <<gh, pv>>
    ELSE /\ eh' = IdleEH
         /\ IF v = <<>>
            THEN GH_Return(<<>>) /\ gh' = gh
            ELSE /\ gh' = [gh EXCEPT !.highlight_segments = v, !.i = 1]
                 /\ pc' = "gh_loop"
                 /\ UNCHANGED <<ret, pv>>

\* the request of one attempt: client.models.generate_content(...)
EH_Request ==
    /\ pc = "eh_loop" /\ eh.attempt < eh.max_attempts
    /\ requests' = [requests EXCEPT !.extractor = @ + 1]
    /\ pc' = "eh_wait"
    /\ UNCHANGED <<entry, args, ret, eh, gd, gh, pv, outcomes>>
    /\ UNCHANGED peer

\* the rest of an attempt whose reply is response, o being what the body of
\* the loop made of it
EH_Handle(response, o) ==
    CASE o.go = "continue" ->
            /\ eh' = [eh EXCEPT !.response = response, !.valid_highlights = o.valid,
                                !.attempt = NextAttempt(@)]
            /\ pc' = "eh_loop"
            /\ UNCHANGED <<ret, gh, pv>>
      [] o.go = "return" ->
            EH_Return(o.result,
                      [eh EXCEPT !.response = response, !.valid_highlights = o.valid])
      [] o.go = "raise" ->
            IF entry = "extract_highlights"
            THEN /\ pc' = "done" /\ ret' = Raise(o.exc)
                 /\ eh' = [eh EXCEPT !.response = response, !.valid_highlights = o.valid]
                 /\ UNCHANGED <<gh, pv>>
            ELSE GH_Except(o.exc) /\ eh' = IdleEH /\ gh' = gh

\* the replies the service may give to the request just made: any one, or,
\* for invocations that run concurrently, the one that the replies given to
\* this invocation hold for its request
RepliesOfExtractor ==
    IF peer.on THEN {args.extractor_replies[requests.extractor]}
    ELSE RepliesToExtractor(entry)

RepliesOfEnricher ==
    IF peer.on THEN {args.enricher_replies[requests.enricher]}
    ELSE EnricherReplies

\* the reply of the service and the rest of the attempt
EH_Reply ==
    /\ pc = "eh_wait"
    /\ \E response \in RepliesOfExtractor :
          EH_Handle(response, EH_Attempt(response, eh.valid_highlights))
    /\ UNCHANGED <<entry, args, gd, requests, outcomes>>
    /\ UNCHANGED peer

\* the loop is over: return []
EH_Exhausted ==
    /\ pc = "eh_loop" /\ eh.attempt >= eh.max_attempts
    /\ EH_Return(<<>>, eh)
    /\ UNCHANGED <<entry, args, gd, requests, outcomes>>
    /\ UNCHANGED peer

\* ------------------------------------------------------------------------
\* generate_description_and_hashtags
\* ------------------------------------------------------------------------

\* if caption_string: (None and "" are both false)
IsTruthy(caption_string) == caption_string.t = "str" /\ caption_string.s # <<>>

\* the record with start_time under both keys
EnrichedHighlightDataStartTwice(start_time, end_time, segment_text, caption_string) ==
    [start |-> start_time, end |-> start_time, segment_text |-> segment_text,
     caption_with_hashtags |-> caption_string.s]

EnrichedHighlightData(start_time, end_time, segment_text, caption_string) ==
    [start |-> start_time, end |-> end_time, segment_text |-> segment_text,
     caption_with_hashtags |-> caption_string.s]

\* generate_description_and_hashtags returns c (None or a string) to the
\* loop of GetHighlights: steps 2c and the next segment
GH_AfterCaption(c) ==
    /\ gh' = [gh EXCEPT
                !.enriched_highlights =
                    IF IsTruthy(c)
                    THEN Append(@, EnrichedHighlightData(gh.start_time, gh.end_time,
                                                         gh.segment_text, c))
                    ELSE @,
                !.i = @ + 1]
    /\ outcomes' = Append(outcomes, [text |-> gh.segment_text, called |-> TRUE, caption |-> c])
    /\ pc' = "gh_loop"
    /\ UNCHANGED <<ret, pv>>

\* generate_description_and_hashtags returns c, its frame being f
GD_Return(c, f) ==
    IF entry = "generate_description_and_hashtags"
    THEN /\ pc' = "done" /\ ret' = Ret(c) /\ gd' = f
         /\ UNCHANGED <<gh, pv, outcomes>>
    ELSE gd' = IdleGD /\ GH_AfterCaption(c)

GD_Enter ==
    /\ pc = "start" /\ entry = "generate_description_and_hashtags"
    /\ IF GD_Guard(args.segment_text)
       THEN GD_Return(VNull, GDFrame(args.segment_text, args.max_attempts))
       ELSE /\ gd' = GDFrame(args.segment_text, args.max_attempts)
            /\ pc' = "gd_loop"
            /\ UNCHANGED <<ret, gh, pv, outcomes>>
    /\ UNCHANGED <<entry, args, eh, requests, outcomes>>
    /\ UNCHANGED peer

GD_Request ==
    /\ pc = "gd_loop" /\ gd.attempt < gd.max_attempts
    /\ requests' = [requests EXCEPT !.enricher = @ + 1]
    /\ pc' = "gd_wait"
    /\ UNCHANGED <<entry, args, ret, eh, gd, gh, pv, outcomes>>
    /\ UNCHANGED peer

GD_Handle(response, o) ==
    CASE o.go = "continue" ->
            /\ gd' = [gd EXCEPT !.response = response, !.attempt = NextAttempt(@)]
            /\ pc' = "gd_loop"
            /\ UNCHANGED <<ret, gh, pv, outcomes>>
      [] o.go = "return" -> GD_Return(VStr(o.result), [gd EXCEPT !.response = response])
      [] o.go = "raise" ->
            IF entry = "generate_description_and_hashtags"
            THEN /\ pc' = "done" /\ ret' = Raise(o.exc)
                 /\ gd' = [gd EXCEPT !.response = response]
                 /\ UNCHANGED <<gh, pv, outcomes>>
            ELSE GH_Except(o.exc) /\ gd' = IdleGD /\ gh' = gh /\ outcomes' = outcomes

GD_Reply ==
    /\ pc = "gd_wait"
    /\ \E response \in RepliesOfEnricher : GD_Handle(response, GD_Attempt(response))
    /\ UNCHANGED <<entry, args, eh, requests>>
    /\ UNCHANGED peer

GD_Exhausted ==
    /\ pc = "gd_loop" /\ gd.attempt >= gd.max_attempts
    /\ GD_Return(VNull, gd)
    /\ UNCHANGED <<entry, args, eh, requests>>
    /\ UNCHANGED peer

\* ------------------------------------------------------------------------
\* GetHighlights: the loop over the segments
\* ------------------------------------------------------------------------

\* a segment without text sends the run back to the extractor
GH_SkipReextracts(segment_text) ==
    /\ gh' = [gh EXCEPT !.i = @ + 1]
    /\ outcomes' = Append(outcomes, [text |-> segment_text, called |-> FALSE, caption |-> VNull])
    /\ pc' = "eh_loop"
    /\ UNCHANGED <<ret, pv, gd>>

\* continue: the segment, for which segment_text was recovered, is left
\* without a call of the enricher
GH_Skip(segment_text) ==
    /\ gh' = [gh EXCEPT !.i = @ + 1]
    /\ outcomes' = Append(outcomes, [text |-> segment_text, called |-> FALSE, caption |-> VNull])
    /\ pc' = "gh_loop"
    /\ UNCHANGED <<ret, pv, gd>>

\* steps 2a and 2b for the window [start_time, end_time) and its text
GH_Enrich(start_time, end_time, segment_text) ==
    IF Strip(segment_text) = <<>> THEN GH_Skip(segment_text)
    ELSE IF GD_Guard(segment_text)
    THEN /\ gh' = [gh EXCEPT !.start_time = start_time, !.end_time = end_time,
                             !.segment_text = segment_text, !.i = @ + 1]
         /\ outcomes' = Append(outcomes, [text |-> segment_text, called |-> TRUE,
                                          caption |-> VNull])
         /\ pc' = "gh_loop"
         /\ UNCHANGED <<ret, pv, gd>>
    ELSE /\ gh' = [gh EXCEPT !.start_time = start_time, !.end_time = end_time,
                             !.segment_text = segment_text]
         /\ gd' = GDFrame(segment_text, GD_default_max_attempts)
         /\ pc' = "gd_loop"
         /\ UNCHANGED <<ret, pv, outcomes>>

\* lines 365-373, start_time and end_time being the outcomes of float():
\* only a ValueError skips the segment
GH_Converted(start_time, end_time) ==
    IF start_time.exc # "none"
    THEN IF start_time.exc = "ValueError" THEN GH_Skip(<<>>)
         ELSE GH_Except(start_time.exc) /\ UNCHANGED <<gh, gd, outcomes>>
    ELSE IF end_time.exc # "none"
    THEN IF end_time.exc = "ValueError" THEN GH_Skip(<<>>)
         ELSE GH_Except(end_time.exc) /\ UNCHANGED <<gh, gd, outcomes>>
    ELSE GH_Enrich(start_time.val, end_time.val,
                   extract_text_for_segment(gh.transcription, start_time.val, end_time.val))

\* One segment, from the conversion of its timestamps to the call of the
\* enricher: the segment is skipped, or the run waits for a caption.
GH_Segment ==
    /\ pc = "gh_loop" /\ gh.i <= Len(gh.highlight_segments)
    /\ GH_Converted(PyFloat(gh.highlight_segments[gh.i].start),
                    PyFloat(gh.highlight_segments[gh.i].end))
    /\ UNCHANGED <<entry, args, eh, requests>>
    /\ UNCHANGED peer

\* after the last segment: return enriched_highlights ([] when it is empty)
GH_Finish ==
    /\ pc = "gh_loop" /\ gh.i > Len(gh.highlight_segments)
    /\ GH_Return(gh.enriched_highlights)
    /\ UNCHANGED <<entry, args, eh, gd, gh, requests, outcomes>>
    /\ UNCHANGED peer

\* ------------------------------------------------------------------------
\* process_video
\* ------------------------------------------------------------------------

Called(name) == [f |-> name, start |-> NaN, stop |-> NaN]
CalledWith(name, start, stop) == [f |-> name, start |-> start, stop |-> stop]

\* process_video returns v, having made the calls in log
PV_Return(v, log) ==
    /\ pc' = "done"
    /\ ret' = Ret(v)
    /\ pv' = [pv EXCEPT !.calls = log]

\* lines 15-54: the video, from the cache, a download or the local path
PV_Acquire ==
    /\ pc = "start" /\ entry = "process_video"
    /\ IF args.url = VNull /\ args.local_path = VNull
       THEN PV_Return(VNull, <<>>)
       ELSE IF args.url # VNull
       THEN \E cached_data \in CacheResults, downloaded \in {VNull, VStr(<<"v">>)} :
               LET log == <<Called("get_cached_processing")>>
               IN  IF cached_data.hit
                   THEN IF cached_data.video_path = VNull
                        THEN PV_Return(VNull, log)
                        ELSE /\ pv' = [pv EXCEPT !.calls = log,
                                                 !.cached_data = cached_data,
                                                 !.video_path = cached_data.video_path,
                                                 !.video_id = 1]
                             /\ pc' = "pv_audio"
                             /\ ret' = ret
                   ELSE IF downloaded = VNull
                        THEN PV_Return(VNull, Append(log, Called("download_youtube_video")))
                        ELSE /\ pv' = [pv EXCEPT
                                         !.calls = Append(log, Called("download_youtube_video")),
                                         !.cached_data = cached_data,
                                         !.video_path = downloaded]
                             /\ pc' = "pv_audio"
                             /\ ret' = ret
       ELSE \E exists \in BOOLEAN, cached_data \in CacheResults :
               IF ~exists THEN PV_Return(VNull, <<>>)
               ELSE /\ pv' = [pv EXCEPT !.calls = <<Called("get_cached_processing")>>,
                                        !.cached_data = cached_data,
                                        !.video_path = args.local_path,
                                        !.video_id = IF cached_data.hit THEN 1 ELSE 0]
                    /\ pc' = "pv_audio"
                    /\ ret' = ret
    /\ UNCHANGED <<entry, args, eh, gd, gh, requests, outcomes>>
    /\ UNCHANGED peer

\* lines 56-73: the audio, cached or extracted, and the row of the video
PV_Audio ==
    /\ pc = "pv_audio"
    /\ \E extracted \in {VNull, VStr(<<"a">>)} :
          LET cached == pv.cached_data.hit /\ pv.cached_data.audio = "ondisk"
              log1 == IF cached THEN pv.calls ELSE Append(pv.calls, Called("extractAudio"))
              log2 == IF pv.video_id = 0 THEN Append(log1, Called("add_video")) ELSE log1
          IN  IF ~cached /\ extracted = VNull
              THEN PV_Return(VNull, log1)
              ELSE /\ pv' = [pv EXCEPT !.calls = log2, !.video_id = IF @ = 0 THEN 2 ELSE @]
                   /\ pc' = "pv_transcribe"
                   /\ ret' = ret
    /\ UNCHANGED <<entry, args, eh, gd, gh, requests, outcomes>>
    /\ UNCHANGED peer

\* lines 75-87: the transcription, cached or new
PV_Transcribe ==
    /\ pc = "pv_transcribe"
    /\ \E transcribed \in TranscriptionResults :
          IF pv.cached_data.hit /\ pv.cached_data.transcription # <<>>
          THEN /\ pv' = [pv EXCEPT !.transcriptions = pv.cached_data.transcription]
               /\ pc' = "pv_get_highlights"
               /\ ret' = ret
          ELSE LET log == Append(pv.calls, Called("transcribeAudio"))
               IN  IF transcribed = <<>> THEN PV_Return(VNull, log)
                   ELSE /\ pv' = [pv EXCEPT !.calls = Append(log, Called("add_transcription")),
                                            !.transcriptions = transcribed]
                        /\ pc' = "pv_get_highlights"
                        /\ ret' = ret
    /\ UNCHANGED <<entry, args, eh, gd, gh, requests, outcomes>>
    /\ UNCHANGED peer

\* f"[{start_time:.2f}] Speaker: {text.strip()} [{end_time:.2f}]\n": a negative
\* start prints a sign, which line_pattern does not match
FormatLine(t) ==
    IF t.start < 0 THEN JunkLine ELSE Stamped(t.start, TRUE, Strip(t.text), TRUE)

TransText(transcriptions) ==
    TStr([i \in 1..Len(transcriptions) |-> FormatLine(transcriptions[i])])

\* lines 89-108: highlights = GetHighlights(TransText)
PV_GetHighlights ==
    /\ pc = "pv_get_highlights"
    /\ GH_Begin(TransText(pv.transcriptions))
    /\ UNCHANGED <<entry, args, outcomes>>
    /\ UNCHANGED peer

\* start, stop = highlights[0]: the keys of the mapping, which must be two
Unpack2(d) ==
    IF Cardinality(DOMAIN d) = 2
    THEN Ret([start |-> VStr(<<"start">>), stop |-> VStr(<<"end">>)])
    ELSE Raise("ValueError")

\* isinstance(x, (int, float))
IsNumber(x) == x.t \in {"num", "nan"}

\* lines 109-150: the crop window, the three video steps and the row of the
\* highlight; a collaborator that raises is caught at line 145
PV_Process ==
    /\ pc = "pv_highlights"
    /\ \E failing \in {"none", "crop_video", "crop_to_vertical", "combine_videos",
                      "add_highlight"} :
          IF pv.highlights = <<>> THEN PV_Return(VNull, pv.calls)
          ELSE LET u == Unpack2(pv.highlights[1])
               IN  IF u.exc # "none"
                   THEN IF PV_Catches(u.exc) THEN PV_Return(VNull, pv.calls)
                        ELSE /\ pc' = "done" /\ ret' = Raise(u.exc) /\ pv' = pv
                   ELSE IF ~IsNumber(u.val.start) \/ ~IsNumber(u.val.stop)
                   THEN PV_Return(VNull, pv.calls)
                   ELSE LET steps == <<CalledWith("crop_video", u.val.start, u.val.stop),
                                       Called("crop_to_vertical"),
                                       Called("combine_videos"),
                                       CalledWith("add_highlight", u.val.start, u.val.stop)>>
                            n == CHOOSE k \in 1..4 : failing = "none" \/ steps[k].f = failing
                        IN  IF failing = "none"
                            THEN PV_Return(VStr(<<"f">>), pv.calls \o steps)
                            ELSE PV_Return(VNull, pv.calls \o SubSeq(steps, 1, n))
    /\ UNCHANGED <<entry, args, eh, gd, gh, requests, outcomes>>
    /\ UNCHANGED peer

Next ==
    \/ Call_validate_highlight
    \/ Call_validate_highlights
    \/ Call_extract_text_for_segment
    \/ GH_Enter
    \/ EH_Enter
    \/ EH_Request
    \/ EH_Reply
    \/ EH_Exhausted
    \/ GD_Enter
    \/ GD_Request
    \/ GD_Reply
    \/ GD_Exhausted
    \/ GH_Segment
    \/ GH_Finish
    \/ PV_Acquire
    \/ PV_Audio
    \/ PV_Transcribe
    \/ PV_GetHighlights
    \/ PV_Process

Spec == Init /\ [][Next]_vars
\* ------------------------------------------------------------------------
\* Two invocations of GetHighlights run concurrently
\* ------------------------------------------------------------------------

\* the replies given to one invocation: to its requests of the extractor and
\* to its requests of the enricher, in the order it makes them
ConcurrentExtractorReplies ==
    {<<Plain(Garbage), Text("json", TRUE, JList(<<SegA, SegB>>)), EmptyReply>>,
     <<Plain(JList(<<SegA>>)), ServiceError, ServiceError>>,
     <<ServiceError, EmptyReply, Plain(JList(<<SegShort>>))>>}

ConcurrentEnricherReplies ==
    {<<EmptyReply, Plain(JObj(VStr(<<" ", "a", " ">>))), Plain(JObj(VStr(<<" ">>))),
       Plain(JObj(VStr(<<"c">>))), EmptyReply, EmptyReply>>,
     <<Text("json", TRUE, JObj(VStr(<<"b">>))), ServiceError, Plain(Garbage),
       Plain(JObj(Absent)), Plain(JObj(VStr(<<"a">>))), EmptyReply>>}

TranscriptAB ==
    TStr(<<Stamped(5, TRUE, <<"a">>, TRUE), Stamped(29, FALSE, <<" ", "b">>, FALSE)>>)
TranscriptA == TStr(<<JunkLine, Stamped(5, TRUE, <<"a">>, TRUE)>>)

ConcurrentArgs(transcription) ==
    {[transcription |-> transcription, extractor_replies |-> x, enricher_replies |-> y] :
        x \in ConcurrentExtractorReplies, y \in ConcurrentEnricherReplies}

\* enriched_highlights as a list of the module, shared by the invocations:
\* the invocation that runs again finds in it what the other one put there
ResumedSharedList(saved, running) ==
    [saved EXCEPT !.gh.enriched_highlights = running.gh.enriched_highlights]

\* the locals the invocation that runs again finds: those it had (every name
\* GetHighlights and the functions it calls assign is a local)
Resumed(saved, running) == saved

\* the running invocation is suspended and the other one runs
Switch ==
    /\ peer.on
    /\ peer' = Invocation(args, pc, ret, eh, gd, gh, requests, outcomes)
    /\ args' = Resumed(peer, peer').args
    /\ pc' = Resumed(peer, peer').pc
    /\ ret' = Resumed(peer, peer').ret
    /\ eh' = Resumed(peer, peer').eh
    /\ gd' = Resumed(peer, peer').gd
    /\ gh' = Resumed(peer, peer').gh
    /\ requests' = Resumed(peer, peer').requests
    /\ outcomes' = Resumed(peer, peer').outcomes
    /\ UNCHANGED <<entry, pv>>

ConcurrentInit ==
    /\ entry = "GetHighlights"
    /\ args \in ConcurrentArgs(TranscriptAB)
    /\ pc = "start"
    /\ ret = NoRet
    /\ eh = IdleEH
    /\ gd = IdleGD
    /\ gh = IdleGH
    /\ pv = PVFrame
    /\ requests = [extractor |-> 0, enricher |-> 0]
    /\ outcomes = <<>>
    /\ peer \in {Invocation(a, "start", NoRet, IdleEH, IdleGD, IdleGH,
                            [extractor |-> 0, enricher |-> 0], <<>>) :
                    a \in ConcurrentArgs(TranscriptA)}

ConcurrentNext ==
    \/ GH_Enter
    \/ EH_Request
    \/ EH_Reply
    \/ EH_Exhausted
    \/ GD_Request
    \/ GD_Reply
    \/ GD_Exhausted
    \/ GH_Segment
    \/ GH_Finish
    \/ Switch

ConcurrentSpec == ConcurrentInit /\ [][ConcurrentNext]_vars

\* ------------------------------------------------------------------------
\* Properties
\* ------------------------------------------------------------------------

\* extract_highlights runs to its end: a statement that can run does run, and
\* the call to the service ends (with a reply or with an exception)
FairSpec ==
    /\ Spec
    /\ WF_vars(EH_Enter)
    /\ WF_vars(EH_Request)
    /\ WF_vars(EH_Reply)
    /\ WF_vars(EH_Exhausted)

Done(e) == entry = e /\ pc = "done"

\* the list the last call of extract_highlights returned: to the caller of the
\* run, or to GetHighlights
ExtractorResult ==
    IF Done("extract_highlights") /\ ret.exc = "none" THEN ret.val
    ELSE IF entry \in {"GetHighlights", "process_video"} THEN gh.highlight_segments
    ELSE <<>>

\* C1: every non-empty list extract_highlights returns has, in each segment,
\* start < end and 29 <= end - start <= 61, is in ascending order of start,
\* and of any two of its segments the earlier ends no later than the later
\* one starts.
C1_ExtractorResultWellFormed ==
    LET l == ExtractorResult
    IN  /\ \A i \in 1..Len(l) :
              /\ FLt(StartOf(l[i]), EndOf(l[i]))
              /\ FLe(Fl(29), FSub(EndOf(l[i]), StartOf(l[i])))
              /\ FLe(FSub(EndOf(l[i]), StartOf(l[i])), Fl(61))
        /\ \A i, j \in 1..Len(l) :
              i < j => /\ FLe(StartOf(l[i]), StartOf(l[j]))
                       /\ FLe(EndOf(l[i]), StartOf(l[j]))

\* a reply in another order comes back as three touching segments
C1_Witness ==
    /\ Done("extract_highlights")
    /\ eh.response = Plain(JList(<<SegN, SegB, SegA>>))
    /\ ret = Ret(<<SegN, SegA, SegB>>)

\* C2: every accepted segment has 0 <= start < end: validate_highlight accepts
\* no segment with a negative start, and extract_highlights returns none.
C2_AcceptedStartNonNegative ==
    /\ (Done("validate_highlight") /\ ret = Ret(TRUE)) =>
          /\ FLe(Fl(0), StartOf(args.highlight))
          /\ FLt(StartOf(args.highlight), EndOf(args.highlight))
    /\ \A i \in 1..Len(ExtractorResult) :
          /\ FLe(Fl(0), StartOf(ExtractorResult[i]))
          /\ FLt(StartOf(ExtractorResult[i]), EndOf(ExtractorResult[i]))

\* what the claims call a value that converts to a number: a number, or a
\* string float() parses
Converts(x) == x.t \in {"num", "nan", "huge"} \/ (x.t = "str" /\ ParseFloat(x.s).exc = "none")

\* the number a converting value stands for (an int beyond float range is
\* larger than every time of the model)
NumberOf(x) ==
    CASE x.t = "num" -> Fl(x.n)
      [] x.t = "huge" -> Fl(1000000)
      [] x.t = "str" -> ParseFloat(x.s).val
      [] OTHER -> NaN

ShouldAccept(h) ==
    /\ h.m = "dict" /\ h.start # Absent /\ h.end # Absent
    /\ Converts(h.start) /\ Converts(h.end)
    /\ FLt(NumberOf(h.start), NumberOf(h.end))
    /\ FLe(Fl(29), FSub(NumberOf(h.end), NumberOf(h.start)))
    /\ FLe(FSub(NumberOf(h.end), NumberOf(h.start)), Fl(61))

\* C3: validate_highlight(s) returns true iff s has both keys, both convert
\* to numbers, start < end and 29 <= end - start <= 61; it returns false, and
\* raises nothing, otherwise.
C3_ValidateOneIff ==
    Done("validate_highlight") =>
        /\ ret.exc = "none"
        /\ ret.val <=> ShouldAccept(args.highlight)

\* C3, apart from integers beyond float range: the same, for every segment
\* neither of whose values is such an integer
C3_IffWithinFloatRange ==
    (/\ Done("validate_highlight")
     /\ args.highlight.start # VHuge /\ args.highlight.end # VHuge) =>
        /\ ret.exc = "none"
        /\ ret.val <=> ShouldAccept(args.highlight)

\* C4: when GetHighlights returns a non-empty list, process_video crops the
\* window of its first element (crop_video, crop_to_vertical, combine_videos,
\* db.add_highlight, in that order) and returns the output path, not None.
C4_FirstHighlightIsCropped ==
    (Done("process_video") /\ pv.highlights # <<>>) =>
        /\ ret.exc = "none" /\ ret.val # VNull
        /\ \E k \in 1..Len(pv.calls) :
              /\ pv.calls[k].f = "crop_video"
              /\ pv.calls[k].start = pv.highlights[1].start
              /\ pv.calls[k].stop = pv.highlights[1].end

\* C5: validate_highlights(S) is false when S is empty, false when a member
\* of S fails validate_highlight, and otherwise true iff no neighbours of S
\* sorted by start overlap.
C5_ValidateSet ==
    Done("validate_highlights") =>
        LET S == args.highlights
            fails(h) == validate_highlight(h) = Ret(FALSE)
            passes(h) == validate_highlight(h) = Ret(TRUE)
        IN  /\ S = <<>> => ret = Ret(FALSE)
            /\ (\E i \in 1..Len(S) : fails(S[i])) => ret = Ret(FALSE)
            /\ (S # <<>> /\ \A i \in 1..Len(S) : passes(S[i])) =>
                  /\ ret.exc = "none"
                  /\ ret.val <=>
                        \A i, j \in 1..Len(S) :
                            (i # j /\ FLe(StartOf(S[i]), StartOf(S[j]))) =>
                                FLe(EndOf(S[i]), StartOf(S[j]))

\* C5, apart from integers beyond float range: the same, for every list in
\* which validate_highlight raises on no member
C5_ValidateSetWithinFloatRange ==
    (/\ Done("validate_highlights")
     /\ \A i \in 1..Len(args.highlights) :
           validate_highlight(args.highlights[i]).exc = "none") =>
        C5_ValidateSet

Count(seq, x) == Cardinality({i \in 1..Len(seq) : seq[i] = x})
Range(seq) == {seq[i] : i \in 1..Len(seq)}

\* C6: extract_highlights makes one request per attempt and at most
\* max_attempts in all; a failed attempt k < max_attempts is followed by
\* attempt k + 1 and a successful one by no request; the list returned is made
\* of the valid segments of the reply of the successful attempt, sorted by
\* start, and of nothing else.
C6_OneRequestPerAttempt ==
    entry = "extract_highlights" =>
        /\ requests.extractor <= eh.max_attempts
        /\ pc = "eh_loop" => requests.extractor = eh.attempt
        /\ pc = "eh_wait" => requests.extractor = eh.attempt + 1
        /\ (pc = "done" /\ ret.exc = "none" /\ ret.val = <<>>) =>
              /\ eh.attempt = eh.max_attempts
              /\ requests.extractor = eh.max_attempts
        /\ (pc = "done" /\ ret.exc = "none" /\ ret.val # <<>>) =>
              LET items == eh.response.body.items
              IN  /\ requests.extractor = eh.attempt + 1
                  /\ eh.response.body.j = "list"
                  /\ \A x \in Range(items) \cup Range(ret.val) :
                        Count(ret.val, x) =
                            IF validate_highlight(x) = Ret(TRUE) THEN Count(items, x) ELSE 0
                  /\ \A i, j \in 1..Len(ret.val) :
                        i < j => FLe(StartOf(ret.val[i]), StartOf(ret.val[j]))

\* two attempts fail and the third succeeds, on a reply that is not in order
C6_Witness ==
    /\ Done("extract_highlights")
    /\ eh.attempt = 2 /\ requests.extractor = 3
    /\ eh.response = Plain(JList(<<SegB, SegA>>))
    /\ ret = Ret(<<SegA, SegB>>)

\* C7: extract_highlights ends, whatever the service replies: with a non-empty
\* list, or with the empty list after max_attempts failed attempts, and with
\* no exception.
C7_ExtractorTerminates ==
    (entry = "extract_highlights") ~>
        (/\ entry = "extract_highlights" /\ pc = "done" /\ ret.exc = "none"
         /\ \/ ret.val # <<>>
            \/ eh.attempt = eh.max_attempts /\ requests.extractor = eh.max_attempts)

\* three failed attempts, the last one a call that raised
C7_Witness ==
    /\ Done("extract_highlights")
    /\ eh.max_attempts = 3 /\ requests.extractor = 3
    /\ eh.response = ServiceError
    /\ ret = Ret(<<>>)

\* C8: GetHighlights raises nothing; it returns the list of the highlights it
\* enriched, which is empty when nothing was extracted or nothing enriched.
C8_GetHighlightsNeverRaises ==
    Done("GetHighlights") =>
        /\ ret.exc = "none"
        /\ ret.val = gh.enriched_highlights
        /\ gh.highlight_segments = <<>> => ret.val = <<>>
        /\ Len(ret.val) <= Len(gh.highlight_segments)

\* every attempt of the extractor failed
C8_Witness ==
    /\ Done("GetHighlights")
    /\ requests.extractor = 3 /\ requests.enricher = 0
    /\ ret = Ret(<<>>)

\* a transcription that is no string: the AttributeError of .strip() ends in []
C8_WitnessNotAString ==
    Done("GetHighlights") /\ args.transcription = TObj /\ ret = Ret(<<>>)

\* the segment is emitted: text was recovered for it and the enricher
\* returned a string (a non-empty one, when nonEmpty)
Emitted(o, nonEmpty) ==
    /\ Strip(o.text) # <<>>
    /\ o.called
    /\ o.caption.t = "str"
    /\ nonEmpty => o.caption.s # <<>>

RECURSIVE ExpectedHighlights(_, _, _)
ExpectedHighlights(segs, outs, nonEmpty) ==
    IF segs = <<>> \/ outs = <<>> THEN <<>>
    ELSE (IF Emitted(Head(outs), nonEmpty)
          THEN <<[start |-> StartOf(Head(segs)), end |-> EndOf(Head(segs)),
                  segment_text |-> Head(outs).text,
                  caption_with_hashtags |-> Head(outs).caption.s]>>
          ELSE <<>>)
         \o ExpectedHighlights(Tail(segs), Tail(outs), nonEmpty)

\* every validated segment was dealt with, on the text recovered for it, and
\* the enricher was called for it iff that text is not empty
EverySegmentProcessed ==
    /\ Len(outcomes) = Len(gh.highlight_segments)
    /\ \A k \in 1..Len(outcomes) :
          /\ outcomes[k].text =
                extract_text_for_segment(gh.transcription,
                                         StartOf(gh.highlight_segments[k]),
                                         EndOf(gh.highlight_segments[k]))
          /\ outcomes[k].called <=> Strip(outcomes[k].text) # <<>>

\* C9 as stated: a skipped segment stops no other, and the list returned has
\* one highlight for each validated segment with recovered text for which
\* the enricher returned a caption (not None), in order, and no other.
C9_OnePerEnrichedSegment ==
    (Done("GetHighlights") /\ ret.exc = "none" /\ gh.highlight_segments # <<>>) =>
        /\ EverySegmentProcessed
        /\ ret.val = ExpectedHighlights(gh.highlight_segments, outcomes, FALSE)

\* C9 as amended: the same, a caption that is the empty string counting as no
\* caption.
C9_OnePerCaptionedSegment ==
    (Done("GetHighlights") /\ ret.exc = "none" /\ gh.highlight_segments # <<>>) =>
        /\ EverySegmentProcessed
        /\ ret.val = ExpectedHighlights(gh.highlight_segments, outcomes, TRUE)

\* of three segments the first has no text, the second is enriched and the
\* third gets no caption
C9_Witness ==
    /\ Done("GetHighlights")
    /\ Len(gh.highlight_segments) = 3 /\ Len(outcomes) = 3
    /\ ~outcomes[1].called
    /\ outcomes[2].called /\ outcomes[2].caption = VStr(<<"a">>)
    /\ outcomes[3].called /\ outcomes[3].caption = VNull
    /\ Len(ret.val) = 1 /\ ret.val[1].start = Fl(0)

\* C10: on a segment text that is empty or only whitespace,
\* generate_description_and_hashtags returns None at once, with no request.
C10_EmptyTextNoRequest ==
    (/\ entry = "generate_description_and_hashtags"
     /\ \A i \in 1..Len(args.segment_text) : args.segment_text[i] \in {" ", "\n"}) =>
        /\ requests.enricher = 0
        /\ pc \in {"start", "done"}
        /\ pc = "done" => ret = Ret(VNull)

C10_Witness ==
    /\ Done("generate_description_and_hashtags")
    /\ args.segment_text = <<" ", "\n">>
    /\ args.max_attempts = 3
    /\ ret = Ret(VNull) /\ requests.enricher = 0

\* the reply parses (the whole text, or the inside of its ```json block, is
\* JSON) to an object that holds the caption field as a string
CaptionReply(response) ==
    /\ response.k = "text"
    /\ response.fence = "json" \/ (response.fence = "none" /\ ~response.prose)
    /\ response.body.j = "obj"
    /\ response.body.cap.t = "str"

\* C11: for a segment text that is not empty, generate_description_and_hashtags
\* makes one call per attempt and at most max_attempts calls; every attempt
\* before the last one begun failed; a reply that parses to an object with the
\* caption as a string ends the run, which returns the trimmed string; a run
\* that returns None has made max_attempts calls, all of which failed.
C11_EnricherRetries ==
    (entry = "generate_description_and_hashtags" /\ Strip(args.segment_text) # <<>>) =>
        /\ requests.enricher <= args.max_attempts
        /\ pc = "gd_loop" =>
              /\ requests.enricher = gd.attempt
              /\ gd.attempt > 0 => ~CaptionReply(gd.response)
        /\ pc = "gd_wait" => requests.enricher = gd.attempt + 1
        /\ pc = "done" =>
              /\ ret.exc = "none"
              /\ IF ret.val = VNull
                 THEN /\ gd.attempt = gd.max_attempts
                      /\ requests.enricher = gd.max_attempts
                      /\ requests.enricher > 0 => ~CaptionReply(gd.response)
                 ELSE /\ CaptionReply(gd.response)
                      /\ ret.val = VStr(Strip(gd.response.body.cap.s))
                      /\ requests.enricher = gd.attempt + 1

\* two attempts fail and the third gets a caption with blanks around it
C11_Witness ==
    /\ Done("generate_description_and_hashtags")
    /\ gd.attempt = 2 /\ requests.enricher = 3
    /\ gd.response = Plain(JObj(VStr(<<" ", "a", " ">>)))
    /\ ret = Ret(VStr(<<"a">>))

\* every attempt fails
C11_WitnessNone ==
    /\ Done("generate_description_and_hashtags")
    /\ Strip(args.segment_text) # <<>>
    /\ requests.enricher = 3
    /\ ret = Ret(VNull)

\* the run of GetHighlights is in extract_highlights
Extracting == pc \in {"eh_loop", "eh_wait"}

\* nothing of step 2 has happened: no text recovered, no call of the enricher
NothingEnriched ==
    /\ requests.enricher = 0
    /\ outcomes = <<>>
    /\ gh.segment_text = <<>>
    /\ gh.enriched_highlights = <<>>

\* where a run of GetHighlights stands: extraction is over before step 2
ExtractionOverBeforeStep2 ==
    entry \in {"GetHighlights", "process_video"} =>
        /\ Extracting => NothingEnriched /\ gh.highlight_segments = <<>>
        /\ gh.highlight_segments = <<>> => NothingEnriched

\* what a step of a run of GetHighlights may do
RequestsInOrder ==
    entry \in {"GetHighlights", "process_video"} =>
        /\ requests'.extractor # requests.extractor =>
              NothingEnriched /\ gh.highlight_segments = <<>>
        /\ (requests'.enricher # requests.enricher \/ outcomes' # outcomes) =>
              /\ ~Extracting /\ gh.highlight_segments # <<>>
              /\ requests'.extractor = requests.extractor
        /\ ~NothingEnriched => requests'.extractor = requests.extractor

\* C12: in a run of GetHighlights every request of the extractor comes before
\* any text recovery and any request of the enricher; once the loop over the
\* segments has begun the extractor makes no request; and when the extractor
\* returns the empty list the enricher gets no request.
C12_ExtractionBeforeEnrichment ==
    []ExtractionOverBeforeStep2 /\ [][RequestsInOrder]_vars

\* the extractor needed two attempts, then a first segment got its caption at
\* the third attempt of the enricher and a second had no text
C12_Witness ==
    /\ Done("GetHighlights")
    /\ requests.extractor = 2 /\ requests.enricher = 3
    /\ Len(outcomes) = 2 /\ outcomes[1].called /\ ~outcomes[2].called
    /\ Len(ret.val) = 1

\* the extractor returned the empty list
C12_WitnessEmpty ==
    /\ Done("GetHighlights")
    /\ requests.extractor = 3 /\ requests.enricher = 0
    /\ gh.highlight_segments = <<>>
    /\ ~IsBlankTranscription(args.transcription)
    /\ ret = Ret(<<>>)

\* the parsed lines of a transcript whose timestamp lies in [start, end); a
\* parsed line is a matching line with the text the parse gives it, not empty
LinesInWindow(lines, start, end) ==
    {i \in 1..Len(lines) :
        /\ lines[i].k = "stamped" /\ text_content(lines[i]) # <<>>
        /\ start.v <= lines[i].ts /\ lines[i].ts < end.v}

\* the members of a set of positions, in ascending order
RECURSIVE Ascending(_)
Ascending(S) ==
    IF S = {} THEN <<>>
    ELSE LET m == CHOOSE x \in S : \A y \in S : x <= y
         IN  <<m>> \o Ascending(S \ {m})

TextsInWindow(lines, start, end) ==
    LET at == Ascending(LinesInWindow(lines, start, end))
    IN  [k \in 1..Len(at) |-> text_content(lines[at[k]])]

\* C13: extract_text_for_segment returns the texts of exactly the parsed lines
\* with start <= timestamp < end, in the order of the transcript, joined by
\* newline, and the empty string when no line lies in the window.
C13_TextOfWindow ==
    Done("extract_text_for_segment") =>
        LET lines == StripSplitlines(args.transcription.lines)
            inside == LinesInWindow(lines, args.start_time, args.end_time)
        IN  /\ ret = Ret(JoinLines(TextsInWindow(lines, args.start_time, args.end_time)))
            /\ inside = {} => ret.val = <<>>

\* two lines that are not in ascending order of timestamp, both in the window
C13_Witness ==
    /\ Done("extract_text_for_segment")
    /\ args.transcription =
          TStr(<<Stamped(29, FALSE, <<" ", "b">>, FALSE), Stamped(5, TRUE, <<"a">>, TRUE)>>)
    /\ args.start_time = Fl(0) /\ args.end_time = Fl(61)
    /\ ret = Ret(<<"b", "\n", "a">>)

\* a line at the end of the window is left out, one at its start is taken
C13_WitnessEnds ==
    /\ Done("extract_text_for_segment")
    /\ args.transcription =
          TStr(<<Stamped(29, FALSE, <<" ", "b">>, FALSE), Stamped(61, FALSE, <<"c">>, FALSE)>>)
    /\ args.start_time = Fl(29) /\ args.end_time = Fl(61)
    /\ ret = Ret(<<"b">>)

\* C14: on a transcript that is empty or holds only whitespace GetHighlights
\* returns the empty list and makes no request, of the extractor or of the
\* enricher.
C14_BlankTranscriptNoRequest ==
    (/\ entry = "GetHighlights"
     /\ args.transcription.t = "str"
     /\ \A i \in 1..Len(args.transcription.lines) :
           args.transcription.lines[i].k = "blank") =>
        /\ requests = [extractor |-> 0, enricher |-> 0]
        /\ pc \in {"start", "done"}
        /\ pc = "done" => ret = Ret(<<>>)

\* a transcript of one line of whitespace
C14_Witness ==
    /\ Done("GetHighlights")
    /\ args.transcription = TStr(<<BlankLine>>)
    /\ requests = [extractor |-> 0, enricher |-> 0]
    /\ ret = Ret(<<>>)

\* the last attempt of extract_highlights succeeded
AttemptSucceeded == pc = "done" /\ ret.exc = "none" /\ ret.val # <<>>

\* the attempt on eh.response ended as the attempt on the same payload
\* without its fence ends
SameAsUnfenced ==
    LET unfenced == EH_Attempt(Plain(eh.response.body), <<>>)
    IN  IF AttemptSucceeded
        THEN unfenced.go = "return" /\ unfenced.result = ret.val
        ELSE unfenced.go = "continue"

\* C15: an attempt of the extractor whose reply is a payload inside a fenced
\* block, with a language tag or without one, ends as the attempt on the
\* payload alone ends: success with the same segments, or failure.
C15_FenceStripped ==
    (/\ entry = "extract_highlights"
     /\ eh.response.k = "text" /\ ~eh.response.prose
     /\ eh.response.fence \in {"json", "bare"}) => SameAsUnfenced

\* C15, for the ```json fence only
C15_JsonFenceStripped ==
    (/\ entry = "extract_highlights"
     /\ eh.response.k = "text" /\ ~eh.response.prose
     /\ eh.response.fence = "json") => SameAsUnfenced

\* the reply parses to a JSON list
ParsedList(response) ==
    /\ response.k = "text"
    /\ response.fence = "json" \/ (response.fence = "none" /\ ~response.prose)
    /\ response.body.j = "list"

IndividuallyValid(h) == validate_highlight(h) = Ret(TRUE)

\* no two segments of the list overlap, in whatever order they stand
PairwiseDisjoint(hs) ==
    \A i, j \in 1..Len(hs) :
        i # j => FLe(EndOf(hs[i]), StartOf(hs[j])) \/ FLe(EndOf(hs[j]), StartOf(hs[i]))

\* the attempt on eh.response succeeded with exactly the valid segments of
\* the reply, in ascending order of start
SucceededWithValidSubset ==
    LET items == eh.response.body.items
    IN  /\ AttemptSucceeded
        /\ \A x \in Range(items) \cup Range(ret.val) :
              Count(ret.val, x) = IF IndividuallyValid(x) THEN Count(items, x) ELSE 0
        /\ \A i, j \in 1..Len(ret.val) :
              i < j => FLe(StartOf(ret.val[i]), StartOf(ret.val[j]))

\* C16: an attempt whose reply list holds valid and invalid segments succeeds
\* with exactly the valid ones when these are not none and do not overlap:
\* the invalid ones are dropped and take no part in the overlap check.
C16_InvalidSegmentsDropped ==
    (entry = "extract_highlights" /\ ParsedList(eh.response)) =>
        LET valid == SelectSeq(eh.response.body.items, IndividuallyValid)
        IN  (valid # <<>> /\ PairwiseDisjoint(valid)) => SucceededWithValidSubset

\* C16, for replies that hold no integer beyond float range
C16_DroppedWithinFloatRange ==
    (/\ entry = "extract_highlights" /\ ParsedList(eh.response)
     /\ \A i \in 1..Len(eh.response.body.items) :
           /\ eh.response.body.items[i].start # VHuge
           /\ eh.response.body.items[i].end # VHuge) =>
        LET valid == SelectSeq(eh.response.body.items, IndividuallyValid)
        IN  (valid # <<>> /\ PairwiseDisjoint(valid)) => SucceededWithValidSubset

\* a segment that is too short, overlapping the valid one, is dropped
C16_WitnessDropped ==
    /\ Done("extract_highlights")
    /\ eh.response = Plain(JList(<<SegShort, SegA>>))
    /\ ret = Ret(<<SegA>>)

AllIndividuallyValid(hs) == \A i \in 1..Len(hs) : IndividuallyValid(hs[i])

\* C17: of valid segments, those that only touch (end_i = start_{i+1}) pass
\* the overlap check and those that overlap (end_i > start_{i+1} once sorted
\* by start, two equal segments included) fail it: validate_highlights
\* returns true for the first and false for the second, and an attempt of
\* the extractor succeeds on the first and fails, going on to the next
\* attempt if one is left, on the second.  (Segments with start < end overlap
\* as neighbours of the sorted list iff some two of them overlap.)
C17_TouchingAcceptedOverlapRejected ==
    /\ (/\ Done("validate_highlights")
        /\ Len(args.highlights) >= 2 /\ AllIndividuallyValid(args.highlights)) =>
            ret = Ret(PairwiseDisjoint(args.highlights))
    /\ (/\ entry = "extract_highlights" /\ ParsedList(eh.response)
        /\ Len(eh.response.body.items) >= 2
        /\ AllIndividuallyValid(eh.response.body.items)) =>
            IF PairwiseDisjoint(eh.response.body.items)
            THEN SucceededWithValidSubset
            ELSE /\ ~AttemptSucceeded
                 /\ eh.attempt >= 1
                 /\ pc = "done" => ret = Ret(<<>>) /\ eh.attempt = eh.max_attempts

\* two segments that touch, given in descending order, are accepted
C17_Witness ==
    /\ Done("validate_highlights")
    /\ args.highlights = <<SegB, SegA>>
    /\ EndOf(SegA) = StartOf(SegB)
    /\ ret = Ret(TRUE)

\* two equal segments are rejected
C17_WitnessEqual ==
    /\ Done("validate_highlights")
    /\ args.highlights = <<SegA, SegA>>
    /\ ret = Ret(FALSE)

\* the extractor goes on to its second attempt after a reply that overlaps
C17_WitnessRetry ==
    /\ entry = "extract_highlights" /\ pc = "eh_wait"
    /\ eh.attempt = 1 /\ requests.extractor = 2
    /\ eh.response = Plain(JList(<<SegA, SegOverlap>>))

\* the extractor accepts a reply of two segments that touch
C17_WitnessTouching ==
    /\ Done("extract_highlights")
    /\ eh.response = Plain(JList(<<SegB, SegA>>))
    /\ ret = Ret(<<SegA, SegB>>)

\* replies no attempt can use: the call raised (a timeout included), the
\* reply is empty, its body is no JSON, or its JSON has the wrong shape
UnusableByExtractor(r) ==
    \/ r.k \in {"error", "empty"}
    \/ r.k = "text" /\ r.body.j \in {"blank", "garbage", "obj", "num"}

UnusableByEnricher(r) ==
    \/ r.k \in {"error", "empty"}
    \/ r.k = "text" /\ r.body.j \in {"blank", "garbage", "list", "num"}
    \/ r.k = "text" /\ r.body.j = "obj" /\ r.body.cap.t # "str"

\* neither function has ended with an exception
NoExceptionLeaves ==
    (entry \in {"extract_highlights", "generate_description_and_hashtags"} /\ pc = "done")
        => ret.exc = "none"

\* the step that handles an unusable reply: one attempt more is used up, the
\* loop is back at its head and nothing is returned or raised
FailureUsesOneAttempt ==
    /\ (pc = "eh_wait" /\ pc' # "eh_wait" /\ UnusableByExtractor(eh'.response)) =>
          /\ pc' = "eh_loop"
          /\ eh'.attempt = eh.attempt + 1 /\ eh'.max_attempts = eh.max_attempts
          /\ requests' = requests /\ ret' = ret
    /\ (pc = "gd_wait" /\ pc' # "gd_wait" /\ UnusableByEnricher(gd'.response)) =>
          /\ pc' = "gd_loop"
          /\ gd'.attempt = gd.attempt + 1 /\ gd'.max_attempts = gd.max_attempts
          /\ requests' = requests /\ ret' = ret

\* C18: in the loop of the extractor and in that of the enricher a call that
\* raises or times out, an empty reply, a reply that is no JSON and a reply
\* of the wrong JSON shape are handled alike: the failure uses up exactly one
\* attempt, the loop goes on with the next one if one is left, and no
\* exception leaves extract_highlights or generate_description_and_hashtags.
C18_FailuresHandledAlike ==
    []NoExceptionLeaves /\ [][FailureUsesOneAttempt]_vars

\* the enricher is at its third call after a call that raised
C18_Witness ==
    /\ entry = "generate_description_and_hashtags" /\ pc = "gd_wait"
    /\ gd.attempt = 2 /\ requests.enricher = 3
    /\ gd.response = ServiceError

\* the extractor has used its three attempts, the last on a reply of the
\* wrong shape
C18_WitnessShape ==
    /\ Done("extract_highlights")
    /\ eh.attempt = 3 /\ requests.extractor = 3
    /\ eh.response = Plain(JObj(VStr(<<"a">>)))
    /\ ret = Ret(<<>>)

\* the highlight was made of the validated segment
MadeOf(highlight, segment) ==
    highlight.start = StartOf(segment) /\ highlight.end = EndOf(segment)

\* C19: a list returned by GetHighlights is in ascending order of start and
\* its windows do not overlap; each highlight has the start and end of one
\* validated segment of the extractor's result, a segment_text that is not
\* empty and is extract_text_for_segment(transcript, start, end), and a
\* caption that is not empty; no validated segment gives two highlights.
C19_EnrichedListWellFormed ==
    (Done("GetHighlights") /\ ret.exc = "none") =>
        /\ \A i, j \in 1..Len(ret.val) :
              i < j => /\ FLt(ret.val[i].start, ret.val[j].start)
                       /\ FLe(ret.val[i].end, ret.val[j].start)
        /\ \A k \in 1..Len(ret.val) :
              /\ \E s \in 1..Len(gh.highlight_segments) :
                    MadeOf(ret.val[k], gh.highlight_segments[s])
              /\ ret.val[k].segment_text # <<>>
              /\ ret.val[k].segment_text =
                    extract_text_for_segment(args.transcription,
                                             ret.val[k].start, ret.val[k].end)
              /\ ret.val[k].caption_with_hashtags # <<>>
        /\ \A s \in 1..Len(gh.highlight_segments) :
              Cardinality({k \in 1..Len(ret.val) :
                              MadeOf(ret.val[k], gh.highlight_segments[s])}) <= 1

\* two highlights, of a reply whose second segment has its times as strings
C19_Witness ==
    /\ Done("GetHighlights")
    /\ gh.highlight_segments = <<SegA, SegB>>
    /\ Len(ret.val) = 2
    /\ ret.val[1].start = Fl(0) /\ ret.val[2].start = Fl(29) /\ ret.val[2].end = Fl(61)

\* GetHighlights run alone against the replies given to it: the list returned
\* by extract_highlights ...
RECURSIVE ExtractAlone(_, _, _)
ExtractAlone(replies, attempt, valid) ==
    IF attempt >= EH_default_max_attempts THEN <<>>
    ELSE IF EH_Attempt(replies[attempt + 1], valid).go = "return"
    THEN EH_Attempt(replies[attempt + 1], valid).result
    ELSE ExtractAlone(replies, attempt + 1, EH_Attempt(replies[attempt + 1], valid).valid)

\* ... the caption generate_description_and_hashtags returns when the first
\* reply it gets is replies[next], and the number of requests it makes ...
RECURSIVE EnrichAlone(_, _, _)
EnrichAlone(replies, next, attempt) ==
    IF attempt >= GD_default_max_attempts THEN [caption |-> VNull, made |-> attempt]
    ELSE IF GD_Attempt(replies[next]).go = "return"
    THEN [caption |-> VStr(GD_Attempt(replies[next]).result), made |-> attempt + 1]
    ELSE EnrichAlone(replies, next + 1, attempt + 1)

\* ... and the list the loop over the segments builds
HighlightAlone(start_time, end_time, segment_text, enriched) ==
    IF IsTruthy(enriched.caption)
    THEN <<EnrichedHighlightData(start_time, end_time, segment_text, enriched.caption)>>
    ELSE <<>>

RECURSIVE SegmentsAlone(_, _, _, _)
SegmentAlone(transcription, segments, replies, next, segment_text) ==
    IF Strip(segment_text) = <<>>
    THEN SegmentsAlone(transcription, Tail(segments), replies, next)
    ELSE HighlightAlone(StartOf(Head(segments)), EndOf(Head(segments)), segment_text,
                        EnrichAlone(replies, next, 0))
         \o SegmentsAlone(transcription, Tail(segments), replies,
                          next + EnrichAlone(replies, next, 0).made)

SegmentsAlone(transcription, segments, replies, next) ==
    IF segments = <<>> THEN <<>>
    ELSE SegmentAlone(transcription, segments, replies, next,
                      extract_text_for_segment(transcription, StartOf(Head(segments)),
                                               EndOf(Head(segments))))

GetHighlightsAlone(a) ==
    IF IsBlankTranscription(a.transcription) THEN <<>>
    ELSE SegmentsAlone(a.transcription, ExtractAlone(a.extractor_replies, 0, <<>>),
                       a.enricher_replies, 1)

\* an invocation that has ended has returned what it returns run alone
ReturnsAsAlone(invocation) ==
    invocation.pc = "done" => invocation.ret = Ret(GetHighlightsAlone(invocation.args))

\* a step of the running invocation leaves the locals of the other one as
\* they are, and a switch hands each invocation its own locals
LocalsKeptApart ==
    \/ peer' = peer
    \/ /\ peer' = Invocation(args, pc, ret, eh, gd, gh, requests, outcomes)
       /\ Invocation(args', pc', ret', eh', gd', gh', requests', outcomes') = peer

\* C20: two invocations of GetHighlights on different transcripts, their steps
\* and their service calls interleaved in any order, each return the list
\* they return when run alone against the replies given to them, and neither
\* reads nor writes what the other one wrote.
C20_ConcurrentInvocationsIndependent ==
    /\ [](peer.on =>
            /\ ReturnsAsAlone(Invocation(args, pc, ret, eh, gd, gh, requests, outcomes))
            /\ ReturnsAsAlone(peer))
    /\ [][peer.on => LocalsKeptApart]_vars

\* both invocations have ended, each with a highlight of its own, the steps
\* of the one having run between those of the other
C20_Witness ==
    /\ peer.on /\ pc = "done" /\ peer.pc = "done"
    /\ args.transcription # peer.args.transcription
    /\ ret.exc = "none" /\ peer.ret.exc = "none"
    /\ Len(ret.val) = 1 /\ Len(peer.ret.val) = 1
    /\ ret.val # peer.ret.val
    /\ requests.enricher >= 2 /\ peer.requests.enricher >= 2

\* ------------------------------------------------------------------------
\* C21: lines that do not match are skipped
\* ------------------------------------------------------------------------

\* the lines that line_pattern does not match
NonMatching == {JunkLine, BlankLine}

\* a transcript with one more line, put after its first p lines
InsertAt(lines, p, line) ==
    SubSeq(lines, 1, p) \o <<line>> \o SubSeq(lines, p + 1, Len(lines))

\* the transcripts got from one by inserting one or two non-matching lines
WithNonMatching(lines) ==
    LET once(ls) == {InsertAt(ls, p, l) : p \in 0..Len(ls), l \in NonMatching}
    IN  once(lines) \cup UNION {once(ls) : ls \in once(lines)}

\* no line has whitespace behind its closing timestamp
NoSpaceBehindStamp(lines) == \A i \in 1..Len(lines) : ~lines[i].sp

\* C21: inserting non-matching lines anywhere in a transcript leaves the
\* result of extract_text_for_segment unchanged for every window, and no
\* exception is raised.
C21_NonMatchingLinesSkipped ==
    Done("extract_text_for_segment") =>
        /\ ret.exc = "none"
        /\ \A more \in WithNonMatching(args.transcription.lines) :
              extract_text_for_segment(TStr(more), args.start_time, args.end_time)
                  = ret.val

\* the same for the transcripts in which no closing timestamp is followed by
\* whitespace
C21_SkippedWithoutTrailingSpace ==
    (Done("extract_text_for_segment") /\ NoSpaceBehindStamp(args.transcription.lines)) =>
        /\ ret.exc = "none"
        /\ \A more \in WithNonMatching(args.transcription.lines) :
              extract_text_for_segment(TStr(more), args.start_time, args.end_time)
                  = ret.val


\* ------------------------------------------------------------------------
\* C22: what the extractor returns, the set validator accepts
\* ------------------------------------------------------------------------

\* C22: every non-empty list extract_highlights returns is accepted by
\* validate_highlights, whatever the service replied.
C22_ExtractorResultAccepted ==
    ExtractorResult # <<>> => validate_highlights(ExtractorResult) = Ret(TRUE)

\* the reply as it came is rejected by validate_highlights, the list returned
\* for it is accepted
C22_Witness ==
    /\ Done("extract_highlights")
    /\ eh.response = Plain(JList(<<SegShort, SegA>>))
    /\ validate_highlights(eh.response.body.items) = Ret(FALSE)
    /\ ret = Ret(<<SegA>>)
    /\ validate_highlights(ret.val) = Ret(TRUE)

\* a list of two segments given back in ascending order and accepted
C22_WitnessSorted ==
    /\ Done("extract_highlights")
    /\ eh.response = Plain(JList(<<SegB, SegA>>))
    /\ ret = Ret(<<SegA, SegB>>)
    /\ validate_highlights(ret.val) = Ret(TRUE)


\* ------------------------------------------------------------------------
\* C23: a run of GetHighlights ends within its budget of requests
\* ------------------------------------------------------------------------

\* GetHighlights called by itself
GetHighlightsInit == Init /\ entry = "GetHighlights"

GetHighlightsNext ==
    \/ GH_Enter
    \/ EH_Request
    \/ EH_Reply
    \/ EH_Exhausted
    \/ GD_Request
    \/ GD_Reply
    \/ GD_Exhausted
    \/ GH_Segment
    \/ GH_Finish

\* the run goes on while a statement can run, and every call of the service
\* ends (with a reply or with an exception)
GetHighlightsFairSpec ==
    GetHighlightsInit /\ [][GetHighlightsNext]_vars /\ WF_vars(GetHighlightsNext)

\* the requests made so far are within 3 for the extractor and 3 for each
\* segment it validated, and what is returned has no more elements than that
\* list of segments
WithinRequestBudget ==
    entry = "GetHighlights" =>
        LET N == Len(gh.highlight_segments)
        IN  /\ requests.extractor <= 3
            /\ requests.enricher <= 3 * N
            /\ requests.extractor + requests.enricher <= 3 + 3 * N
            /\ pc = "done" /\ ret.exc = "none" => Len(ret.val) <= N

\* C23: whatever the service replies, a run of GetHighlights ends, having made
\* at most 3 requests to the extractor and at most 3 to the enricher for each
\* of the N validated segments (3 + 3N in all), and returns at most N elements.
C23_GetHighlightsEndsWithinBudget ==
    /\ []WithinRequestBudget
    /\ (entry = "GetHighlights") ~> (entry = "GetHighlights" /\ pc = "done")

\* the whole budget spent: three requests of the extractor, the third one
\* giving two segments, and three of the enricher for each, none captioned
C23_Witness ==
    /\ Done("GetHighlights")
    /\ Len(gh.highlight_segments) = 2
    /\ requests.extractor = 3 /\ requests.enricher = 6
    /\ ret = Ret(<<>>)

\* as many elements returned as segments validated
C23_WitnessAll ==
    /\ Done("GetHighlights")
    /\ Len(gh.highlight_segments) = 2
    /\ Len(ret.val) = 2


\* ------------------------------------------------------------------------
\* C24: the order of the steps of process_video
\* ------------------------------------------------------------------------

\* the positions of the calls of a collaborator in the log of the run
CallsOf(name) == {k \in 1..Len(pv.calls) : pv.calls[k].f = name}

LastCall == IF pv.calls = <<>> THEN "none" ELSE pv.calls[Len(pv.calls)].f

\* crop_video, crop_to_vertical and combine_videos have been called, in that
\* order, before position m of the log
CroppedBefore(m) ==
    \E i \in CallsOf("crop_video"), j \in CallsOf("crop_to_vertical"),
       k \in CallsOf("combine_videos") : i < j /\ j < k /\ k < m

\* highlight generation has been started
GenerationStarted ==
    \/ pc \in {"eh_loop", "eh_wait", "gd_loop", "gd_wait", "gh_loop", "pv_highlights"}
    \/ gh # IdleGH
    \/ requests.extractor > 0 \/ requests.enricher > 0

\* the failure paths of a run that is over
NeitherGiven == args.url = VNull /\ args.local_path = VNull
LocalFileMissing == args.url = VNull /\ args.local_path # VNull /\ pv.calls = <<>>
DownloadFailed == LastCall = "download_youtube_video" /\ pv.video_path = VNull
AudioFailed == LastCall = "extractAudio" /\ pv.transcriptions = <<>>
TranscriptionFailed == LastCall = "transcribeAudio" /\ pv.transcriptions = <<>>
NoHighlights == GenerationStarted /\ pv.highlights = <<>>
ProcessingRaised ==
    /\ pv.highlights # <<>>
    /\ \/ Unpack2(pv.highlights[1]).exc # "none"
       \/ LastCall \notin {"add_highlight", "add_transcription", "add_video",
                          "get_cached_processing", "extractAudio"}

FailurePath ==
    \/ NeitherGiven \/ LocalFileMissing \/ DownloadFailed \/ AudioFailed
    \/ TranscriptionFailed \/ NoHighlights \/ ProcessingRaised

\* C24: process_video calls db.add_highlight and returns a path only after
\* crop_video, crop_to_vertical and combine_videos, called in that order; on
\* every failure path it returns None and has not called db.add_highlight;
\* and highlight generation starts only when there is a transcription.
C24_StepsOfProcessVideoInOrder ==
    entry = "process_video" =>
        /\ GenerationStarted => pv.transcriptions # <<>>
        /\ pc = "done" =>
              /\ \A m \in CallsOf("add_highlight") : CroppedBefore(m)
              /\ ret # Ret(VNull) =>
                    /\ ret.exc = "none"
                    /\ CroppedBefore(Len(pv.calls) + 1)
                    /\ CallsOf("add_highlight") # {}
              /\ FailurePath => ret = Ret(VNull) /\ CallsOf("add_highlight") = {}

\* highlight processing raised: GetHighlights gave one highlight for the new
\* transcription and the run ended with None
C24_Witness ==
    /\ Done("process_video")
    /\ LastCall = "add_transcription"
    /\ pv.transcriptions # <<>>
    /\ Len(pv.highlights) = 1
    /\ ProcessingRaised
    /\ ret = Ret(VNull)
    /\ CallsOf("add_highlight") = {}

\* the transcription failed: no highlight generation, None
C24_WitnessNoTranscription ==
    /\ Done("process_video")
    /\ TranscriptionFailed
    /\ ~GenerationStarted
    /\ ret = Ret(VNull)

\* a run of process_video that returned a path: no run gets there, the
\* unpacking of line 113 raising for every highlight GetHighlights makes (C4)
PathReturned ==
    Done("process_video") /\ ret.exc = "none" /\ ret.val # VNull


====
